---- MODULE Spec2Model ----
(***************************************************************************)
(* Model of src/src/VocabularyMindMapApp.tsx.                              *)
(*                                                                         *)
(* Spec is the outline parser: getDepth, resolveColor and parseText (line  *)
(* loop, ancestor stack, label map, color inheritance), followed by the    *)
(* crossLinks memo of the component.  EditorSpec is the component's local  *)
(* state: the text, the snapshot history, local storage and the splitter.  *)
(*                                                                         *)
(* A JavaScript string is a sequence of one-character strings, so that     *)
(* the regular expressions of the source are modelled character by         *)
(* character.  An optional value (T | undefined) is None == <<>> or        *)
(* Some(v) == <<v>>.                                                       *)
(***************************************************************************)
EXTENDS Integers, Sequences, FiniteSets, TLC

VARIABLES
    input,      \* parseText's argument, one string
    lines,      \* input.replace(/\r\n?/g, "\n").split("\n")
    idx,        \* index (0-based) of the next line lines.forEach visits
    stack,      \* ancestor stack, node ids, bottom first
    nodes,      \* id -> RawNode
    labelToId,  \* label name -> node id
    last,       \* locals of the most recent forEach callback that built a node
    threw,      \* TRUE once a TypeError was raised
    pc,         \* "lines" | "done" | "threw"; "editor" under EditorSpec
    crossLinks, \* the crossLinks memo: None until it is computed
    editorText,   \* useState text: the editor's text
    history,      \* useState: the snapshots, newest first
    leftPct,      \* useState: width of the left panel in percent
    splitDragRef, \* useRef: None for null, or Some([dragging, startX, startPct])
    listeners,    \* pairs (onMove, onUp) registered on window
    localStorage, \* the three keys of the component, None for a missing key
    mounted,      \* TRUE once the initial-load effect has run
    now           \* Date.now()

parserVars == <<input, lines, idx, stack, nodes, labelToId, last, threw, pc, crossLinks>>

editorVars == <<editorText, history, leftPct, splitDragRef, listeners, localStorage, mounted, now>>

vars == <<input, lines, idx, stack, nodes, labelToId, last, threw, pc, crossLinks,
          editorText, history, leftPct, splitDragRef, listeners, localStorage, mounted, now>>

----------------------------------------------------------------------------
(* Characters and strings *)

BS == "\\"
TAB == "\t"
SP == " "
CR == "\r"
LF == "\n"

None == <<>>
Some(v) == <<v>>
IsSome(o) == o # <<>>
Get(o) == o[1]

\* /\s/ and String.prototype.trim's white space, within the model's alphabet
IsSpace(c) == c \in {SP, TAB, CR, LF}

UpperToLower ==
    [c \in {"A","B","C","D","E","F","G","H","I","J","K","L","M",
            "N","O","P","Q","R","S","T","U","V","W","X","Y","Z"} |->
       CASE c = "A" -> "a" [] c = "B" -> "b" [] c = "C" -> "c" [] c = "D" -> "d"
         [] c = "E" -> "e" [] c = "F" -> "f" [] c = "G" -> "g" [] c = "H" -> "h"
         [] c = "I" -> "i" [] c = "J" -> "j" [] c = "K" -> "k" [] c = "L" -> "l"
         [] c = "M" -> "m" [] c = "N" -> "n" [] c = "O" -> "o" [] c = "P" -> "p"
         [] c = "Q" -> "q" [] c = "R" -> "r" [] c = "S" -> "s" [] c = "T" -> "t"
         [] c = "U" -> "u" [] c = "V" -> "v" [] c = "W" -> "w" [] c = "X" -> "x"
         [] c = "Y" -> "y" [] c = "Z" -> "z"]

LowerChar(c) == IF c \in DOMAIN UpperToLower THEN UpperToLower[c] ELSE c

\* String.prototype.toLowerCase
toLowerCase(s) == [i \in 1..Len(s) |-> LowerChar(s[i])]

\* s.slice(i) with a 0-based i in 0..s.length
slice(s, i) == SubSeq(s, i + 1, Len(s))

\* String.prototype.trim
RECURSIVE trimStart(_)
trimStart(s) ==
    IF s # <<>> /\ IsSpace(Head(s)) THEN trimStart(Tail(s)) ELSE s

RECURSIVE trimEnd(_)
trimEnd(s) ==
    IF s # <<>> /\ IsSpace(s[Len(s)]) THEN trimEnd(SubSeq(s, 1, Len(s) - 1)) ELSE s

trim(s) == trimEnd(trimStart(s))

\* s.indexOf(sub), 1-based; 0 when sub does not occur
StartsAt(s, sub, i) ==
    /\ i >= 1
    /\ i + Len(sub) - 1 <= Len(s)
    /\ SubSeq(s, i, i + Len(sub) - 1) = sub

indexOf(s, sub) ==
    IF \E i \in 1..(Len(s) + 1) : StartsAt(s, sub, i)
    THEN CHOOSE i \in 1..(Len(s) + 1) :
            StartsAt(s, sub, i) /\ \A j \in 1..(i - 1) : ~StartsAt(s, sub, j)
    ELSE 0

\* s.replace(sub, "") with a string pattern: the first occurrence is removed
removeAt(s, i, n) ==
    IF i = 0 THEN s ELSE SubSeq(s, 1, i - 1) \o SubSeq(s, i + n, Len(s))

removeFirst(s, sub) == removeAt(s, indexOf(s, sub), Len(sub))

includes(s, sub) == indexOf(s, sub) # 0

----------------------------------------------------------------------------
(* getDepth *)

\* s[i] for a 0-based i; past the end JavaScript yields undefined, which
\* equals no character
charAt(s, i) == IF i >= 0 /\ i < Len(s) THEN s[i + 1] ELSE "undefined"

RECURSIVE getDepthLoop(_, _, _)
getDepthLoop(s, i, depth) ==
    IF i < Len(s)
    THEN IF charAt(s, i) = TAB
         THEN getDepthLoop(s, i + 1, depth + 1)
         ELSE IF charAt(s, i) = SP
              THEN IF charAt(s, i + 1) = SP
                   THEN getDepthLoop(s, i + 2, depth + 1)
                   ELSE [depth |-> depth, rest |-> slice(s, i)]
              ELSE [depth |-> depth, rest |-> slice(s, i)]
    ELSE [depth |-> depth, rest |-> slice(s, i)]

\* getDepth with a lone space counted as a level of its own
RECURSIVE getDepthSingleSpaceLoop(_, _, _)
getDepthSingleSpaceLoop(s, i, depth) ==
    IF i < Len(s) /\ charAt(s, i) \in {TAB, SP}
    THEN getDepthSingleSpaceLoop(s, IF charAt(s, i) = SP /\ charAt(s, i + 1) = SP
                                    THEN i + 2 ELSE i + 1, depth + 1)
    ELSE [depth |-> depth, rest |-> slice(s, i)]

getDepthSingleSpace(s) == getDepthSingleSpaceLoop(s, 0, 0)

getDepth(s) == getDepthLoop(s, 0, 0)

----------------------------------------------------------------------------
(* resolveColor *)

COLOR_PRESETS ==
    ( <<"r","e","d">>             :> <<"#","e","f","4","4","4","4">>
   @@ <<"b","l","u","e">>         :> <<"#","3","b","8","2","f","6">>
   @@ <<"g","r","e","e","n">>     :> <<"#","2","2","c","5","5","e">>
   @@ <<"o","r","a","n","g","e">> :> <<"#","f","5","9","e","0","b">>
   @@ <<"p","u","r","p","l","e">> :> <<"#","a","7","8","b","f","a">>
   @@ <<"t","e","a","l">>         :> <<"#","1","4","b","8","a","6">>
   @@ <<"p","i","n","k">>         :> <<"#","e","c","4","8","9","9">>
   @@ <<"g","r","a","y">>         :> <<"#","6","b","7","2","8","0">>
   @@ <<"s","l","a","t","e">>     :> <<"#","6","4","7","4","8","b">>
   @@ <<"a","m","b","e","r">>     :> <<"#","f","5","9","e","0","b">>
   @@ <<"l","i","m","e">>         :> <<"#","8","4","c","c","1","6">> )

\* COLOR_PRESETS is an object literal, so its prototype is Object.prototype and
\* a property read that finds no own property continues there.  These are the
\* inherited properties a key of the model's alphabet can name; their values
\* are objects, not strings.
ObjectPrototype ==
    ( <<"c","o","n","s","t","r","u","c","t","o","r">> :> <<"[Function: Object]">>
   @@ <<"_","_","p","r","o","t","o","_","_">>         :> <<"[Object: null prototype] {}">>
   @@ <<"t","o","S","t","r","i","n","g">>             :> <<"[Function: toString]">>
   @@ <<"v","a","l","u","e","O","f">>                 :> <<"[Function: valueOf]">> )

\* COLOR_PRESETS[key]: None stands for undefined
PresetLookup(key) ==
    IF key \in DOMAIN COLOR_PRESETS THEN Some(COLOR_PRESETS[key])
    ELSE IF key \in DOMAIN ObjectPrototype THEN Some(ObjectPrototype[key])
    ELSE None

IsHexDigit(c) ==
    c \in {"0","1","2","3","4","5","6","7","8","9",
           "a","b","c","d","e","f","A","B","C","D","E","F"}

\* the hex pattern with {3,8} for the three lengths
IsHexLiteralAnyLength(s) ==
    /\ Len(s) \in 4..9
    /\ s[1] = "#"
    /\ \A i \in 2..Len(s) : IsHexDigit(s[i])

\* /^#([0-9a-fA-F]{3}|[0-9a-fA-F]{6}|[0-9a-fA-F]{8})$/.test(s)
IsHexLiteral(s) ==
    /\ Len(s) \in {4, 7, 9}
    /\ s[1] = "#"
    /\ \A i \in 2..Len(s) : IsHexDigit(s[i])

\* str is None (undefined) or Some(string); the result is None or Some(value)
resolveColor(str) ==
    IF ~IsSome(str) \/ Get(str) = <<>> THEN None
    ELSE LET s == trim(Get(str))
         IN  IF IsHexLiteral(s) THEN Some(s)
             ELSE PresetLookup(toLowerCase(s))

----------------------------------------------------------------------------
(* The directive regular expressions /\\\\?KEYWORD\{([^}]+)\}/ *)

\* one literal character of the pattern against one of the text; ci is the
\* regular expression's i flag
CharMatches(c, k, ci) == IF ci THEN LowerChar(c) = LowerChar(k) ELSE c = k

\* the literal keyword kw is read at the 1-based position p of text
KeywordAt(text, p, kw, ci) ==
    /\ p + Len(kw) - 1 <= Len(text)
    /\ \A j \in 1..Len(kw) : CharMatches(text[p + j - 1], kw[j], ci)

\* the least element of a set of positions, 0 for the empty set
First(S) == IF S = {} THEN 0 ELSE CHOOSE i \in S : \A j \in S : i <= j

\* [^}]* for [^}]+: an empty payload matches too
ClosingBraceAnyPayload(text, p) == First({q \in p..Len(text) : text[q] = "}"})

\* [^}]+ followed by \}: p is the 1-based position of the first payload
\* character; the result is the position of the first "}" at or after p, or 0
\* when there is none or the payload would be empty
ClosingBrace(text, p) ==
    IF First({q \in p..Len(text) : text[q] = "}"}) > p
    THEN First({q \in p..Len(text) : text[q] = "}"})
    ELSE 0

\* what follows the backslashes: the keyword at the 1-based position k, then
\* "{", a payload and "}"
DirectiveAt(text, k, kw, ci) ==
    /\ KeywordAt(text, k, kw, ci)
    /\ charAt(text, k + Len(kw) - 1) = "{"
    /\ ClosingBrace(text, k + Len(kw) + 1) # 0

\* the pattern tried with the match starting exactly at the 1-based position i:
\* a backslash, a second one when the rest then matches (\\? is greedy and
\* backtracks), the keyword, "{", the payload, "}".  The result is the
\* position of the keyword, or 0 for no match.
MatchFrom(text, i, kw, ci) ==
    IF ~(i <= Len(text) /\ text[i] = BS) THEN 0
    ELSE IF charAt(text, i) = BS /\ DirectiveAt(text, i + 2, kw, ci) THEN i + 2
    ELSE IF DirectiveAt(text, i + 1, kw, ci) THEN i + 1
    ELSE 0

\* the match array of a match that starts at i with its keyword at k:
\* m.index, m[0] as whole, m[1] as group; end is the position of the "}"
MatchArray(text, i, k, kw) ==
    [index |-> i,
     end   |-> ClosingBrace(text, k + Len(kw) + 1),
     whole |-> SubSeq(text, i, ClosingBrace(text, k + Len(kw) + 1)),
     group |-> SubSeq(text, k + Len(kw) + 1, ClosingBrace(text, k + Len(kw) + 1) - 1)]

MatchResult(text, i, kw, ci) ==
    IF i = 0 THEN None ELSE Some(MatchArray(text, i, MatchFrom(text, i, kw, ci), kw))

\* re.exec(text) with lastIndex = from - 1: the leftmost match at or after the
\* 1-based position from, or None for null
ExecFrom(text, kw, ci, from) ==
    MatchResult(text, First({i \in from..Len(text) : MatchFrom(text, i, kw, ci) # 0}),
                kw, ci)

\* text.match(re) for a pattern without the g flag
match(text, kw, ci) == ExecFrom(text, kw, ci, 1)

\* the loop  while ((m = refRegex.exec(text))) refs.push(m[1].trim())  of a
\* pattern with the g flag: lastIndex moves to the end of each match
RECURSIVE execAll(_, _, _, _)
RECURSIVE execAllNext(_, _, _, _)

\* exec called once, with if for while: the first match only
execOnce(text, kw, ci, m) == IF ~IsSome(m) THEN <<>> ELSE <<trim(Get(m).group)>>

execAll(text, kw, ci, from) == execAllNext(text, kw, ci, ExecFrom(text, kw, ci, from))

execAllNext(text, kw, ci, m) ==
    IF ~IsSome(m) THEN <<>>
    ELSE <<trim(Get(m).group)>> \o execAll(text, kw, ci, Get(m).end + 1)

\* text.replace(re, "") for a pattern with the g flag
RECURSIVE replaceAll(_, _, _, _)
RECURSIVE replaceAllNext(_, _, _, _, _)

\* replace without the g flag: the first match only is removed
replaceOnce(text, kw, ci, from, m) ==
    IF ~IsSome(m) THEN SubSeq(text, from, Len(text))
    ELSE SubSeq(text, from, Get(m).index - 1) \o SubSeq(text, Get(m).end + 1, Len(text))

replaceAll(text, kw, ci, from) ==
    replaceAllNext(text, kw, ci, from, ExecFrom(text, kw, ci, from))

replaceAllNext(text, kw, ci, from, m) ==
    IF ~IsSome(m) THEN SubSeq(text, from, Len(text))
    ELSE SubSeq(text, from, Get(m).index - 1)
           \o replaceAll(text, kw, ci, Get(m).end + 1)

\* s.replace(/\s{2,}/g, " ")
RECURSIVE collapseSpaces(_)
collapseSpaces(s) ==
    IF s = <<>> THEN <<>>
    ELSE IF Len(s) >= 2 /\ IsSpace(s[1]) /\ IsSpace(s[2])
         THEN <<SP>> \o collapseSpaces(trimStart(s))
         ELSE <<s[1]>> \o collapseSpaces(Tail(s))

\* s.split(/[\,\s]+/): the pieces between the maximal runs of separators,
\* the empty pieces at either end included
IsTagSeparator(c) == c = "," \/ IsSpace(c)

RECURSIVE splitTags(_, _)
splitTags(s, piece) ==
    IF s = <<>> THEN <<piece>>
    ELSE IF IsTagSeparator(s[1])
         THEN IF Len(s) >= 2 /\ IsTagSeparator(s[2])
              THEN splitTags(Tail(s), piece)
              ELSE <<piece>> \o splitTags(Tail(s), <<>>)
         ELSE splitTags(Tail(s), Append(piece, s[1]))

\* .map((t) => t.trim().toLowerCase()).filter(Boolean)
mapFilter(arr) ==
    SelectSeq([i \in 1..Len(arr) |-> toLowerCase(trim(arr[i]))], LAMBDA t : t # <<>>)

tagList(payload) == mapFilter(splitTags(payload, <<>>))

----------------------------------------------------------------------------
(* parseText: the body of the lines.forEach callback *)

KW_COLOR == <<"c","o","l","o","r">>
KW_LABEL == <<"l","a","b","e","l">>
KW_POS   == <<"p","o","s">>
KW_JP    == <<"j","p">>
KW_TAGS  == <<"t","a","g","s">>
KW_REF   == <<"r","e","f">>

UNTITLED == <<"(","u","n","t","i","t","l","e","d",")">>

\* !v for a string | undefined
Falsy(o) == ~IsSome(o) \/ Get(o) = <<>>

\* `n_${idx}`
NodeId(i) == "n_" \o ToString(i)

\* the flags of the six patterns as the source writes them
CI_COLOR == TRUE
CI_LABEL == FALSE
CI_POS   == TRUE
CI_JP    == TRUE
CI_TAGS  == TRUE
CI_REF   == FALSE

\* The callback's locals are the fields of one record, which each block of
\* the callback updates in the order of the source.

\* const { depth, rest } = getDepth(raw); let text = rest.trim(); ...
InitialLocals(raw, d) ==
    [raw |-> raw, depth |-> d.depth, rest |-> d.rest, text |-> trim(d.rest),
     colorRaw |-> None, label |-> None, pos |-> None, jp |-> None,
     refs |-> <<>>, tags |-> <<>>, text5 |-> <<>>]

Locals(raw) == InitialLocals(raw, getDepth(raw))

\* text.replace(m[0], "").trim()
Without(text, m) == trim(removeFirst(text, Get(m).whole))

\* if (colorMatch) { colorRaw = colorMatch[1].trim(); text = ...; }
IfColorMatch(l, colorMatch) ==
    IF IsSome(colorMatch)
    THEN [l EXCEPT !.colorRaw = Some(trim(Get(colorMatch).group)),
                   !.text = Without(l.text, colorMatch)]
    ELSE l

ExtractColor(l) == IfColorMatch(l, match(l.text, KW_COLOR, CI_COLOR))

\* if (labelMatch) { label = labelMatch[1].trim(); text = ...; }
IfLabelMatch(l, labelMatch) ==
    IF IsSome(labelMatch)
    THEN [l EXCEPT !.label = Some(trim(Get(labelMatch).group)),
                   !.text = Without(l.text, labelMatch)]
    ELSE l

ExtractLabel(l) == IfLabelMatch(l, match(l.text, KW_LABEL, CI_LABEL))

\* if (posMatch) { pos = posMatch[1].trim().toLowerCase(); text = ...; }
IfPosMatch(l, posMatch) ==
    IF IsSome(posMatch)
    THEN [l EXCEPT !.pos = Some(toLowerCase(trim(Get(posMatch).group))),
                   !.text = Without(l.text, posMatch)]
    ELSE l

ExtractPos(l) == IfPosMatch(l, match(l.text, KW_POS, CI_POS))

\* if (jpMatch) { jp = jpMatch[1].trim(); text = ...; }
IfJpMatch(l, jpMatch) ==
    IF IsSome(jpMatch)
    THEN [l EXCEPT !.jp = Some(trim(Get(jpMatch).group)),
                   !.text = Without(l.text, jpMatch)]
    ELSE l

ExtractJp(l) == IfJpMatch(l, match(l.text, KW_JP, CI_JP))

\* if (tagsMatch) { tags.push(...arr); text = ...; }
IfTagsMatch(l, tagsMatch) ==
    IF IsSome(tagsMatch)
    THEN [l EXCEPT !.tags = tagList(Get(tagsMatch).group),
                   !.text = Without(l.text, tagsMatch)]
    ELSE l

ExtractTags(l) == IfTagsMatch(l, match(l.text, KW_TAGS, CI_TAGS))

\* pos pushed only when the line has no tags of its own
PushPosWhenNoTags(l) ==
    IF Falsy(l.pos) \/ l.tags # <<>> THEN l ELSE [l EXCEPT !.tags = Append(@, Get(l.pos))]

\* if (pos) tags.push(pos);
PushPos(l) == IF Falsy(l.pos) THEN l ELSE [l EXCEPT !.tags = Append(@, Get(l.pos))]

\* the exec loop, then text.replace(refRegex, "").replace(/\s{2,}/g, " ").trim();
\* text5 keeps the text the reference pattern was run on
ExtractRefs(l) ==
    [l EXCEPT !.refs = execAll(l.text, KW_REF, CI_REF, 1),
              !.text5 = l.text,
              !.text = trim(collapseSpaces(replaceAll(l.text, KW_REF, CI_REF, 1)))]

\* the callback from getDepth down to the last assignment of text
ParsedLocals(raw) ==
    ExtractRefs(PushPos(ExtractTags(ExtractJp(ExtractPos(ExtractLabel(
        ExtractColor(Locals(raw))))))))

\* the node literal with text for text || "(untitled)"
MakeNodeTextAsIs(l, i) ==
    [id             |-> NodeId(i),
     depth          |-> l.depth,
     line           |-> i,
     text           |-> l.text,
     jp             |-> l.jp,
     color          |-> resolveColor(l.colorRaw),
     effectiveColor |-> None,
     label          |-> l.label,
     refs           |-> l.refs,
     pos            |-> l.pos,
     tags           |-> l.tags,
     children       |-> <<>>]

\* const node: RawNode = { ... }
MakeNode(l, i) ==
    [id             |-> NodeId(i),
     depth          |-> l.depth,
     line           |-> i,
     text           |-> IF Len(l.text) # 0 THEN l.text ELSE UNTITLED,
     jp             |-> l.jp,
     color          |-> resolveColor(l.colorRaw),
     effectiveColor |-> None,
     label          |-> l.label,
     refs           |-> l.refs,
     pos            |-> l.pos,
     tags           |-> l.tags,
     children       |-> <<>>]

----------------------------------------------------------------------------
(* parseText: line splitting *)

\* the position of the leftmost c in s, 0 when there is none
firstOf(s, c) == First({i \in 1..Len(s) : s[i] = c})

\* input.replace(/\r\n?/g, "\n"): the leftmost match is replaced, then the
\* search goes on behind it
RECURSIVE normalizeEol(_)
normalizeFrom(s, p) ==
    IF p = 0 THEN s
    ELSE SubSeq(s, 1, p - 1) \o <<LF>>
            \o normalizeEol(SubSeq(s, IF p < Len(s) /\ s[p + 1] = LF THEN p + 2 ELSE p + 1, Len(s)))

normalizeEol(s) == normalizeFrom(s, firstOf(s, CR))

\* s.split("\n")
RECURSIVE splitLines(_)
splitFrom(s, p) ==
    IF p = 0 THEN <<s>>
    ELSE <<SubSeq(s, 1, p - 1)>> \o splitLines(SubSeq(s, p + 1, Len(s)))

splitLines(s) == splitFrom(s, firstOf(s, LF))

----------------------------------------------------------------------------
(* The inputs *)

MaxLines == 3
MaxSegs == 3
MaxIndent == 4
MaxDirs == 2
MaxTagSegs == 3

RECURSIVE Concat(_)
Concat(ss) == IF ss = <<>> THEN <<>> ELSE Head(ss) \o Concat(Tail(ss))

RECURSIVE Join(_, _)
Join(ls, eol) ==
    IF Len(ls) <= 1 THEN Concat(ls)
    ELSE Head(ls) \o eol \o Join(Tail(ls), eol)

SeqsUpTo(S, n) == UNION {[1..k -> S] : k \in 0..n}

\* outline lines: depths 0 to 3, an empty line and one of white space, a
\* color, a label declared twice, a reference, a label of white space
TreeLines ==
    { <<"a">>,
      <<" "," ","b">>,
      <<" "," "," "," ","c">>,
      <<" "," "," "," "," "," ","e">>,
      <<>>,
      <<" "," ">>,
      <<"a"," ","\\","c","o","l","o","r","{","r","e","d","}">>,
      <<"a"," ","\\","l","a","b","e","l","{","x","}">>,
      <<" "," ","b"," ","\\","l","a","b","e","l","{","x","}">>,
      <<" "," ","c"," ","\\","r","e","f","{","x","}">>,
      <<"b"," ","\\","l","a","b","e","l","{"," ","}">> }

\* pieces of a line's text: plain text, white space, reference directives
\* well formed and not, halves of a directive, a label directive
Segments ==
    { <<"a">>,
      <<" ">>,
      <<"\\","r","e","f","{","x","}">>,
      <<"\\","r","e","f","{"," ","y","}">>,
      <<"\\","\\","r","e","f","{","x","}">>,
      <<"\\","r","e","f","{">>,
      <<"\\","r","e">>,
      <<"f","{","y","}">>,
      <<"\\","l","a","b","e","l","{","x","}">>,
      <<"}">> }

\* payloads of a color directive
ColorPayloads ==
    { <<"r","e","d">>,
      <<"R","E","D">>,
      <<"R","e","d">>,
      <<" ","r","e","d"," ">>,
      <<"#","a","b","c">>,
      <<"#","A","B","C","D","E","F">>,
      <<"#","1","2","3","4","a","b","c","d">>,
      <<"#","a","b","c","d">>,
      <<"#","a","b","c","d","e">>,
      <<"#","g","g","g">>,
      <<"z","z","z">>,
      <<"c","o","n","s","t","r","u","c","t","o","r">>,
      <<"_","_","p","r","o","t","o","_","_">>,
      <<" ">> }

ColorDirective(p) == <<"\\","c","o","l","o","r","{">> \o p \o <<"}">>

TreeInputs == {Join(ls, <<LF>>) : ls \in SeqsUpTo(TreeLines, MaxLines) \ {<<>>}}

SegmentInputs == {Concat(ss) : ss \in SeqsUpTo(Segments, MaxSegs)}

IndentInputs ==
    {ind \o body : ind \in SeqsUpTo({SP, TAB}, MaxIndent), body \in {<<>>, <<"a">>}}

ColorInputs ==
    {Join(<<<<"a"," ","\\","c","o","l","o","r","{","b","l","u","e","}">>, <<SP, SP, "b", SP>> \o ColorDirective(p)>>, <<LF>>) :
        p \in ColorPayloads}
    \cup {<<"b", SP>> \o ColorDirective(p) : p \in ColorPayloads}

EolInputs ==
    {Join(<<l1, l2, <<"c">> >>, eol) :
        l1 \in {<<"a">>, <<>>}, l2 \in {<<SP, SP, "b">>, <<>>},
        eol \in {<<CR, LF>>, <<CR>>, <<LF, CR>>}}

\* outlines with references: a label, a node that refers to itself and to
\* another node, a node that refers twice to one label and to an unknown one
LinkLines ==
    { <<"a"," ","\\","l","a","b","e","l","{","x","}">>,
      <<"b"," ","\\","l","a","b","e","l","{","y","}"," ",
        "\\","r","e","f","{","y","}"," ","\\","r","e","f","{","x","}">>,
      <<" "," ","c"," ","\\","r","e","f","{","x","}"," ",
        "\\","r","e","f","{","q","}"," ","\\","r","e","f","{","x","}">> }

LinkInputs == {Join(ls, <<LF>>) : ls \in SeqsUpTo(LinkLines, MaxLines) \ {<<>>}}

\* directives whose keyword is not all in lower case, one of each type, and
\* a label in lower case
CaseSegments ==
    { <<"w"," ">>,
      <<"\\","C","O","L","O","R","{","r","e","d","}">>,
      <<"\\","L","A","B","E","L","{","x","}">>,
      <<"\\","P","o","s","{","n","o","u","n","}">>,
      <<"\\","J","p","{","w","}">>,
      <<"\\","T","A","G","S","{","a","}">>,
      <<"\\","R","e","f","{","x","}">>,
      <<"\\","l","a","b","e","l","{","x","}">> }

CaseInputs == {Concat(ss) : ss \in SeqsUpTo(CaseSegments, MaxDirs)}

\* a word, part-of-speech directives (one in capitals with spaces, one of
\* white space only), tags directives (one with empty tokens, capitals and
\* spaces), a translation
TagSegments ==
    { <<"w"," ">>,
      <<"\\","p","o","s","{","n","o","u","n","}">>,
      <<"\\","P","O","S","{"," ","A","d","j"," ","}">>,
      <<"\\","p","o","s","{"," ","}">>,
      <<"\\","t","a","g","s","{","f","o","o","d",",","b","a","s","i","c","}">>,
      <<"\\","t","a","g","s","{"," ","B"," ",",",",","\t","c",",","}">>,
      <<"\\","j","p","{"," ","w","o","r","d","}">> }

\* word \pos{noun} \tags{food,basic} \jp{word}
TagsExample ==
    <<"w","o","r","d"," ","\\","p","o","s","{","n","o","u","n","}"," ",
      "\\","t","a","g","s","{","f","o","o","d",",","b","a","s","i","c","}"," ",
      "\\","j","p","{","w","o","r","d","}">>

TagInputs == {Concat(ss) : ss \in SeqsUpTo(TagSegments, MaxTagSegs)} \cup {TagsExample}

\* lines whose directives stand between words, and runs of white space of
\* one, two and three characters
SpacingInputs ==
    { <<"a"," ","\\","r","e","f","{","x","}"," ","b">>,
      <<"a"," ","\\","l","a","b","e","l","{","x","}"," ","b">>,
      <<"a"," "," ","\\","r","e","f","{","x","}"," "," ","\\","r","e","f","{","y","}"," ","b">>,
      <<"a","\t","\t","b">>,
      <<"a","\t","b">>,
      <<"a"," ","\t"," ","b"," "," ","c">>,
      <<" ","\t","\\","l","a","b","e","l","{","x","}"," ","\\","r","e","f","{","x","}","\t">> }

\* directives without payload, without closing brace and without braces, a
\* keyword inside the payload of a directive, a directive, a payload in
\* braces and a closing brace
MalformedSegments ==
    { <<"w"," ">>,
      <<"\\","p","o","s","{","}">>,
      <<"\\","t","a","g","s","{","a">>,
      <<"\\","j","p">>,
      <<"\\","c","o","l","o","r","{">>,
      <<"\\","l","a","b","e","l","{","}">>,
      <<"\\","l","a","b","e","l">>,
      <<"\\","r","e","f","{","x">>,
      <<"\\","t","a","g","s","{","\\","j","p","}">>,
      <<"\\","p","o","s","{","a","}">>,
      <<"{","b","}">>,
      <<"}">> }

MalformedInputs == {Concat(ss) : ss \in SeqsUpTo(MalformedSegments, MaxDirs)}

Inputs ==
    TreeInputs \cup SegmentInputs \cup IndentInputs \cup ColorInputs \cup EolInputs
       \cup LinkInputs \cup CaseInputs \cup TagInputs \cup SpacingInputs
       \cup MalformedInputs

----------------------------------------------------------------------------
(* parseText as a state machine: one step per line, then applyColor *)

\* the root created at depth 0, the depth of the top-level lines
RootAtDepthZero ==
    [id |-> "root", depth |-> 0, line |-> -1, text |-> <<"r","o","o","t">>,
     jp |-> None, color |-> None, effectiveColor |-> None, label |-> None,
     refs |-> <<>>, pos |-> None, tags |-> <<>>, children |-> <<>>]

ROOT ==
    [id |-> "root", depth |-> -1, line |-> -1, text |-> <<"r","o","o","t">>,
     jp |-> None, color |-> None, effectiveColor |-> None, label |-> None,
     refs |-> <<>>, pos |-> None, tags |-> <<>>, children |-> <<>>]

\* the data parseText builds, as one value: the ancestor stack, the nodes by
\* id, the label map, and whether a TypeError was raised
Started ==
    [stack |-> <<ROOT.id>>, nodes |-> (ROOT.id :> ROOT), labelToId |-> <<>>,
     threw |-> FALSE]

\* the stack adjustment with > for >=: a sibling is kept as the parent
RECURSIVE popStackStrict(_, _, _)
popStackStrict(st, ns, depth) ==
    IF Len(st) # 0 /\ ns[st[Len(st)]].depth > depth
    THEN popStackStrict(SubSeq(st, 1, Len(st) - 1), ns, depth)
    ELSE st

\* while (stack.length && stack[stack.length - 1].depth >= depth) stack.pop();
RECURSIVE popStack(_, _, _)
popStack(st, ns, depth) ==
    IF Len(st) # 0 /\ ns[st[Len(st)]].depth >= depth
    THEN popStack(SubSeq(st, 1, Len(st) - 1), ns, depth)
    ELSE st

\* the label map filled only when the name is new: the first declaration wins
MapSetIfAbsent(m, k, v) == [x \in DOMAIN m \cup {k} |-> IF x \in DOMAIN m THEN m[x] ELSE v]

\* labelToId.set(label, id)
MapSet(m, k, v) == [x \in DOMAIN m \cup {k} |-> IF x = k THEN v ELSE m[x]]

\* the callback without stack.push(node): the stack is popped only
AttachWithoutPush(ps, node, popped) ==
    IF Len(popped) = 0
    THEN [ps EXCEPT !.stack = popped, !.threw = TRUE]
    ELSE [stack     |-> popped,
          nodes     |-> [ps.nodes EXCEPT ![popped[Len(popped)]].children =
                                              Append(@, node.id)]
                        @@ (node.id :> node),
          labelToId |-> IF Falsy(node.label) THEN ps.labelToId
                        ELSE MapSet(ps.labelToId, Get(node.label), node.id),
          threw     |-> ps.threw]

\* stack[stack.length - 1].children.push(node); stack.push(node);
\* if (label) labelToId.set(label, node.id);
\* popped is the stack after the while loop
Attach(ps, node, popped) ==
    IF Len(popped) = 0
    THEN \* stack[-1] is undefined: reading .children throws a TypeError
         [ps EXCEPT !.stack = popped, !.threw = TRUE]
    ELSE [stack     |-> Append(popped, node.id),
          nodes     |-> [ps.nodes EXCEPT ![popped[Len(popped)]].children =
                                              Append(@, node.id)]
                        @@ (node.id :> node),
          labelToId |-> IF Falsy(node.label) THEN ps.labelToId
                        ELSE MapSet(ps.labelToId, Get(node.label), node.id),
          threw     |-> ps.threw]

\* the blank test without trim(): only the empty line is skipped
IsEmptyLine(raw) == Len(raw) = 0

\* !raw.trim()
IsBlank(raw) == Len(trim(raw)) = 0

\* the forEach callback (raw, idx) => { ... }
Callback(ps, raw, i) ==
    IF IsBlank(raw) THEN ps
    ELSE Attach(ps, MakeNode(ParsedLocals(raw), i),
                popStack(ps.stack, ps.nodes, getDepth(raw).depth))

\* lines.forEach from the 0-based index i on; a TypeError ends the loop
RECURSIVE forEach(_, _, _)
forEach(ps, ls, i) ==
    IF i >= Len(ls) \/ ps.threw THEN ps
    ELSE forEach(Callback(ps, ls[i + 1], i), ls, i + 1)

\* function applyColor(node, inherited)
RECURSIVE applyColor(_, _, _)
RECURSIVE applyColorEach(_, _, _, _)

\* applyColor handing its own argument, not cur, down to the children
applyColorSkipsOwn(ns, id, inherited) ==
    applyColorEach([ns EXCEPT ![id].effectiveColor =
                                  IF IsSome(ns[id].color) THEN ns[id].color ELSE inherited],
                   ns[id].children, 1, inherited)

applyColor(ns, id, inherited) ==
    applyColorEach([ns EXCEPT ![id].effectiveColor =
                                  IF IsSome(ns[id].color) THEN ns[id].color ELSE inherited],
                   ns[id].children, 1,
                   IF IsSome(ns[id].color) THEN ns[id].color ELSE inherited)

applyColorEach(ns, kids, i, cur) ==
    IF i > Len(kids) THEN ns
    ELSE applyColorEach(applyColor(ns, kids[i], cur), kids, i + 1, cur)

\* parseText for an array of lines: the loop, then applyColor(root, undefined)
Colored(ps) ==
    IF ps.threw THEN ps ELSE [ps EXCEPT !.nodes = applyColor(ps.nodes, ROOT.id, None)]

parseLines(ls) == Colored(forEach(Started, ls, 0))

----------------------------------------------------------------------------
(* The crossLinks memo of the component *)

\* nodePos.get(id): the entry of a node stands for the node itself, one entry
\* per node that treeRoot.each visits
nodePos(ns, id) == IF id \in DOMAIN ns THEN Some(id) ELSE None

\* parsed.labelToId.get(r)
MapGet(m, k) == IF k \in DOMAIN m THEN Some(m[k]) ELSE None

\* const to = targetId ? nodePos.get(targetId) : undefined;
toOf(ns, targetId) ==
    IF IsSome(targetId) /\ Get(targetId) # "" THEN nodePos(ns, Get(targetId)) ELSE None

\* the link pushed without the test from !== to
linkIfFound(ns, id, from, to) ==
    IF IsSome(from) /\ IsSome(to)
    THEN <<[from |-> Get(from), to |-> Get(to), color |-> ns[id].effectiveColor]>>
    ELSE <<>>

\* if (from && to && from !== to) links.push({ from, to, color })
linkIf(ns, id, from, to) ==
    IF IsSome(from) /\ IsSome(to) /\ from # to
    THEN <<[from |-> Get(from), to |-> Get(to), color |-> ns[id].effectiveColor]>>
    ELSE <<>>

\* the callback of data.refs.forEach for the reference r of the node id
refLink(ns, l2i, id, r) == linkIf(ns, id, nodePos(ns, id), toOf(ns, MapGet(l2i, r)))

\* data.refs.forEach from the 1-based position k on
RECURSIVE refsForEach(_, _, _, _)
refsForEach(ns, l2i, id, k) ==
    IF k > Len(ns[id].refs) THEN <<>>
    ELSE refLink(ns, l2i, id, ns[id].refs[k]) \o refsForEach(ns, l2i, id, k + 1)

\* treeRoot.each: breadth first from the root; queue holds the nodes to visit
RECURSIVE each(_, _, _)
each(ns, l2i, queue) ==
    IF queue = <<>> THEN <<>>
    ELSE refsForEach(ns, l2i, Head(queue), 1)
            \o each(ns, l2i, Tail(queue) \o ns[Head(queue)].children)

----------------------------------------------------------------------------
(* The state machines *)

SAMPLE == "SAMPLE"

\* no key of the component is in local storage
EmptyStorage == [text |-> None, meta |-> None, history |-> None]

\* the component's state as useState and useRef create it, with local
\* storage holding store
FirstRender(store) ==
    /\ editorText = SAMPLE
    /\ history = <<>>
    /\ leftPct = 50
    /\ splitDragRef = None
    /\ listeners = 0
    /\ localStorage = store
    /\ mounted = FALSE
    /\ now = 0

\* lines 109-122: the state when lines.forEach starts
Init ==
    /\ FirstRender(EmptyStorage)
    /\ crossLinks = None
    /\ input \in Inputs
    /\ \E normalized \in {normalizeEol(input)} : lines = splitLines(normalized)
    /\ idx = 0
    /\ stack = Started.stack
    /\ nodes = Started.nodes
    /\ labelToId = Started.labelToId
    /\ threw = Started.threw
    /\ last = None
    /\ pc = "lines"

Current == [stack |-> stack, nodes |-> nodes, labelToId |-> labelToId, threw |-> threw]

\* the callback's effect ps on the data, and forEach's move to the next line
Becomes(ps) ==
    /\ stack' = ps.stack
    /\ nodes' = ps.nodes
    /\ labelToId' = ps.labelToId
    /\ threw' = ps.threw
    /\ pc' = IF ps.threw THEN "threw" ELSE pc
    /\ idx' = IF ps.threw THEN idx ELSE idx + 1

\* one call of the callback by forEach, on a blank line:
\* if (!raw.trim()) return;
SkipBlankLine ==
    /\ pc = "lines"
    /\ idx < Len(lines)
    /\ IsBlank(lines[idx + 1])
    /\ Becomes(Callback(Current, lines[idx + 1], idx))
    /\ UNCHANGED <<input, lines, last, crossLinks>>
    /\ UNCHANGED editorVars

\* one call of the callback by forEach, on a line that is not blank
ParseLine ==
    /\ pc = "lines"
    /\ idx < Len(lines)
    /\ ~IsBlank(lines[idx + 1])
    /\ Becomes(Callback(Current, lines[idx + 1], idx))
    /\ last' = Some(ParsedLocals(lines[idx + 1]))
    /\ UNCHANGED <<input, lines, crossLinks>>
    /\ UNCHANGED editorVars

\* applyColor(root, undefined); return { root, labelToId };
ApplyColor ==
    /\ pc = "lines"
    /\ idx = Len(lines)
    /\ nodes' = applyColor(nodes, ROOT.id, None)
    /\ pc' = "done"
    /\ UNCHANGED <<input, lines, idx, stack, labelToId, last, threw, crossLinks>>
    /\ UNCHANGED editorVars

\* the crossLinks memo, computed from the tree and the label map parseText
\* returned
CrossLinks ==
    /\ pc = "done"
    /\ crossLinks = None
    /\ crossLinks' = Some(each(nodes, labelToId, <<ROOT.id>>))
    /\ UNCHANGED <<input, lines, idx, stack, nodes, labelToId, last, threw, pc>>
    /\ UNCHANGED editorVars

Next == SkipBlankLine \/ ParseLine \/ ApplyColor \/ CrossLinks

Spec == Init /\ [][Next]_vars

----------------------------------------------------------------------------
(* The component's local state: text, snapshot history, local storage and  *)
(* the splitter.  A value of local storage is None for a missing key or    *)
(* Some([parses, value]): parses tells whether JSON.parse accepts the      *)
(* stored string, value is what it yields.  The leftPct of the stored meta *)
(* is Some(number), or None when it is missing or not a number.            *)
(* Positions and widths are in pixels; the inputs are such that            *)
(* dx / width * 100 is a whole number.                                     *)

MaxTime == 2
MaxListeners == 1

HISTORY_LIMIT == 30
MIN_PCT == 15
MAX_PCT == 85

Texts == {SAMPLE, "t"}

\* n snapshots saved before this session
OldSnapshots(n) == [k \in 1..n |-> [ts |-> 0 - k, text |-> "old"]]

StoredHistories ==
    {None, Some([parses |-> FALSE, value |-> <<>>])}
       \cup {Some([parses |-> TRUE, value |-> OldSnapshots(n)]) :
                n \in {0, 1, HISTORY_LIMIT - 1, HISTORY_LIMIT, HISTORY_LIMIT + 1}}

StoredMetas ==
    {None, Some([parses |-> FALSE, value |-> [leftPct |-> None]])}
       \cup {Some([parses |-> TRUE, value |-> [leftPct |-> v]]) :
                v \in {None, Some(0 - 5), Some(50), Some(90)}}

StoredTexts == {None, Some(""), Some("t")}

Storages == [text : StoredTexts, meta : StoredMetas, history : StoredHistories]

\* pointer positions (clientX) and widths of the panels (rect.width)
ClientXs == {0, 200, 400}

Widths == {400, 800}

MathMax(a, b) == IF a >= b THEN a ELSE b

MathMin(a, b) == IF a <= b THEN a ELSE b

\* the lower limit only
clampBelow(n, min, max) == MathMax(min, n)

\* const clamp = (n, min, max) => Math.max(min, Math.min(max, n));
clamp(n, min, max) == MathMax(min, MathMin(max, n))

\* arr.slice(0, n)
sliceTo(arr, n) == SubSeq(arr, 1, MathMin(n, Len(arr)))

\* const next = [snap, ...history].slice(0, 30);
nextHistory(snap, h) == sliceTo(<<snap>> \o h, HISTORY_LIMIT)

\* the two autosave effects: after a render with a new text or leftPct the
\* keys text and meta hold the current values; h is the history key
Autosaved(h) ==
    [text    |-> Some(editorText'),
     meta    |-> Some([parses |-> TRUE, value |-> [leftPct |-> Some(leftPct')]]),
     history |-> h]

\* JSON.parse throws on the stored history: the catch skips the rest
HistoryThrows == IsSome(localStorage.history) /\ ~Get(localStorage.history).parses

\* the parser is not part of this state machine
ParserIdle ==
    /\ input = <<>>
    /\ lines = <<>>
    /\ idx = 0
    /\ stack = Started.stack
    /\ nodes = Started.nodes
    /\ labelToId = Started.labelToId
    /\ threw = Started.threw
    /\ last = None
    /\ crossLinks = None
    /\ pc = "editor"

EditorInit ==
    /\ ParserIdle
    /\ \E store \in Storages : FirstRender(store)

\* the initial-load effect, then the autosave effects of the first render
Mount ==
    /\ pc = "editor"
    /\ ~mounted
    /\ mounted' = TRUE
    /\ editorText' =
          IF IsSome(localStorage.text) /\ Get(localStorage.text) # ""
          THEN Get(localStorage.text) ELSE editorText
    /\ history' =
          IF IsSome(localStorage.history) /\ Get(localStorage.history).parses
          THEN Get(localStorage.history).value ELSE history
    /\ leftPct' =
          IF /\ ~HistoryThrows
             /\ IsSome(localStorage.meta)
             /\ Get(localStorage.meta).parses
             /\ IsSome(Get(localStorage.meta).value.leftPct)
          THEN MathMax(MIN_PCT, MathMin(MAX_PCT, Get(Get(localStorage.meta).value.leftPct)))
          ELSE leftPct
    /\ localStorage' = Autosaved(localStorage.history)
    /\ UNCHANGED <<splitDragRef, listeners, now>>
    /\ UNCHANGED parserVars

\* onChange of the textarea: setText(e.target.value)
EditText ==
    /\ pc = "editor"
    /\ mounted
    /\ \E t \in Texts \ {editorText} : editorText' = t
    /\ UNCHANGED <<history, leftPct, splitDragRef, listeners, mounted, now>>
    /\ localStorage' = Autosaved(localStorage.history)
    /\ UNCHANGED parserVars

\* saveSnapshot, from the button or Ctrl+S; the clock moves on
SaveSnapshot ==
    /\ pc = "editor"
    /\ mounted
    /\ now < MaxTime
    /\ now' = now + 1
    /\ history' = nextHistory([ts |-> now, text |-> editorText], history)
    /\ UNCHANGED <<editorText, leftPct, splitDragRef, listeners, mounted>>
    /\ localStorage' = Autosaved(Some([parses |-> TRUE, value |-> history']))
    /\ UNCHANGED parserVars

\* the restore button of the i-th entry: setText(h.text)
Restore ==
    /\ pc = "editor"
    /\ mounted
    /\ \E i \in 1..Len(history) : editorText' = history[i].text
    /\ UNCHANGED <<history, leftPct, splitDragRef, listeners, mounted, now>>
    /\ localStorage' = Autosaved(localStorage.history)
    /\ UNCHANGED parserVars

\* onSplitterDown: the drag starts and a pair (onMove, onUp) is registered
SplitterDown ==
    /\ pc = "editor"
    /\ mounted
    /\ listeners < MaxListeners
    /\ \E x \in ClientXs :
          splitDragRef' = Some([dragging |-> TRUE, startX |-> x, startPct |-> leftPct])
    /\ listeners' = listeners + 1
    /\ UNCHANGED <<editorText, history, leftPct, localStorage, mounted, now>>
    /\ UNCHANGED parserVars

\* the pct onMove computes for the pointer at x over panels of width w
movedPct(ref, x, w) == clamp(ref.startPct + ((x - ref.startX) * 100) \div w, MIN_PCT, MAX_PCT)

\* a mousemove on window: every registered onMove runs; none is registered
\* before the first mousedown and after a mouseup
MouseMove ==
    /\ pc = "editor"
    /\ mounted
    /\ \E x \in ClientXs, w \in Widths :
          leftPct' =
             IF listeners > 0 /\ IsSome(splitDragRef) /\ Get(splitDragRef).dragging
             THEN movedPct(Get(splitDragRef), x, w)
             ELSE leftPct
    /\ UNCHANGED <<editorText, history, splitDragRef, listeners, mounted, now>>
    /\ localStorage' = Autosaved(localStorage.history)
    /\ UNCHANGED parserVars

\* a mouseup on window: every registered onUp ends the drag and removes its
\* pair of listeners
MouseUp ==
    /\ pc = "editor"
    /\ mounted
    /\ splitDragRef' =
          IF listeners > 0 /\ IsSome(splitDragRef)
          THEN Some([Get(splitDragRef) EXCEPT !.dragging = FALSE])
          ELSE splitDragRef
    /\ listeners' = 0
    /\ UNCHANGED <<editorText, history, leftPct, localStorage, mounted, now>>
    /\ UNCHANGED parserVars

EditorNext ==
    Mount \/ EditText \/ SaveSnapshot \/ Restore \/ SplitterDown \/ MouseMove \/ MouseUp

EditorSpec == EditorInit /\ [][EditorNext]_vars

----------------------------------------------------------------------------
(* Vocabulary of the properties *)

RootId == "root"

NonRoot == DOMAIN nodes \ {RootId}

ChildSet(id) == {nodes[id].children[k] : k \in 1..Len(nodes[id].children)}

ParentsOf(id) == {p \in DOMAIN nodes : id \in ChildSet(p)}

ParentOf(id) == CHOOSE p \in DOMAIN nodes : id \in ChildSet(p)

RECURSIVE Descendants(_)
Descendants(id) == {id} \cup UNION {Descendants(c) : c \in ChildSet(id)}

\* a line that is empty or holds white space only
WhitespaceOnly(raw) == \A k \in 1..Len(raw) : raw[k] \in {SP, TAB, CR, LF}

\* the lines the loop has visited, as 0-based indices
Visited == 0..(idx - 1)

VisitedNonBlank == {i \in Visited : ~WhitespaceOnly(lines[i + 1])}

\* the node of the most recent line that is not blank
NewestNode == CHOOSE id \in NonRoot : \A o \in NonRoot : nodes[o].line <= nodes[id].line

----------------------------------------------------------------------------
(* C1: parsing is total and yields one tree under one implicit root.  In    *)
(* every state no TypeError was raised and the ancestor stack is not empty *)
(* (so the node of every line found a parent); the node "root" exists with *)
(* depth -1 and line -1, is nobody's child, and is the only node that does *)
(* not come from a line; every other node has exactly one parent and is    *)
(* reachable from the root.                                                *)

C1_ParseIsTotalWithOneRoot ==
    /\ ~threw
    /\ pc # "threw"
    /\ Len(stack) >= 1
    /\ RootId \in DOMAIN nodes
    /\ nodes[RootId].depth = -1
    /\ nodes[RootId].line = -1
    /\ ParentsOf(RootId) = {}
    /\ \A id \in NonRoot :
          /\ nodes[id].line \in Visited
          /\ nodes[id].depth >= 0
          /\ Cardinality(ParentsOf(id)) = 1
    /\ Descendants(RootId) = DOMAIN nodes

\* a finished parse in which a line was attached to the root after deeper
\* lines had been pushed on the stack
C1_Witness ==
    /\ pc = "done"
    /\ Cardinality(DOMAIN nodes) = 4
    /\ Len(nodes[RootId].children) = 2
    /\ Len(nodes[nodes[RootId].children[1]].children) = 1

----------------------------------------------------------------------------
(* C2: the parent of the node of a line of depth D is the node of the       *)
(* nearest preceding non-blank line of depth < D, or the root when there   *)
(* is none, whatever the size of the depth jump; the node is appended      *)
(* last (children are in line order and the newest node is its parent's    *)
(* last child); no node exists but the root and one per visited non-blank  *)
(* line; every depth-0 node is a child of the root.                        *)

ShallowerBefore(id) ==
    {m \in NonRoot : nodes[m].line < nodes[id].line /\ nodes[m].depth < nodes[id].depth}

NearestShallower(id) ==
    IF ShallowerBefore(id) = {} THEN RootId
    ELSE CHOOSE m \in ShallowerBefore(id) :
            \A o \in ShallowerBefore(id) : nodes[o].line <= nodes[m].line

InLineOrder(kids) ==
    \A j, k \in 1..Len(kids) : j < k => nodes[kids[j]].line < nodes[kids[k]].line

C2_ParentIsNearestShallowerLine ==
    pc # "threw" =>
       /\ NonRoot = {NodeId(i) : i \in VisitedNonBlank}
       /\ \A id \in NonRoot :
             /\ nodes[id].id = id
             /\ id = NodeId(nodes[id].line)
             /\ ParentsOf(id) = {NearestShallower(id)}
             /\ nodes[id].depth = 0 => ParentsOf(id) = {RootId}
       /\ \A p \in DOMAIN nodes : InLineOrder(nodes[p].children)
       /\ NonRoot # {} =>
             LET kids == nodes[NearestShallower(NewestNode)].children
             IN  Len(kids) >= 1 /\ kids[Len(kids)] = NewestNode

\* a node two or more levels below its parent, and a node whose parent is
\* not the node of the line before it
C2_Witness ==
    /\ pc = "done"
    /\ \E id \in NonRoot :
          /\ ParentOf(id) # RootId
          /\ nodes[id].depth >= nodes[ParentOf(id)].depth + 2
    /\ \E id \in NonRoot :
          /\ NodeId(nodes[id].line - 1) \in NonRoot
          /\ ParentOf(id) # NodeId(nodes[id].line - 1)
          /\ ParentOf(id) # ParentOf(NodeId(nodes[id].line - 1))

----------------------------------------------------------------------------
(* C3: a line that is empty or white space only produces no node and       *)
(* leaves the stack, the nodes and the label map as they were; the number  *)
(* of nodes other than the root is the number of visited non-blank lines;  *)
(* the finished parse has the same shape (parent/child structure, depths,  *)
(* texts, colors and the other fields, node identities replaced by the     *)
(* node's rank in line order) as the parse of the same lines with the      *)
(* blank ones taken out.                                                   *)

NonBlankLines(ls) == SelectSeq(ls, LAMBDA l : ~WhitespaceOnly(l))

Rank(ns, id) == Cardinality({m \in DOMAIN ns : ns[m].line < ns[id].line})

Shape(ps) ==
    [nodes  |-> {[rank           |-> Rank(ps.nodes, id),
                  depth          |-> ps.nodes[id].depth,
                  text           |-> ps.nodes[id].text,
                  jp             |-> ps.nodes[id].jp,
                  color          |-> ps.nodes[id].color,
                  effectiveColor |-> ps.nodes[id].effectiveColor,
                  label          |-> ps.nodes[id].label,
                  refs           |-> ps.nodes[id].refs,
                  pos            |-> ps.nodes[id].pos,
                  tags           |-> ps.nodes[id].tags,
                  children       |-> [k \in 1..Len(ps.nodes[id].children) |->
                                         Rank(ps.nodes, ps.nodes[id].children[k])]] :
                 id \in DOMAIN ps.nodes},
     labels |-> {<<name, Rank(ps.nodes, ps.labelToId[name])>> :
                 name \in DOMAIN ps.labelToId},
     threw  |-> ps.threw]

C3_BlankLineStep ==
    (pc = "lines" /\ idx < Len(lines) /\ WhitespaceOnly(lines[idx + 1]))
       => /\ idx' = idx + 1
          /\ UNCHANGED <<stack, nodes, labelToId, threw, pc>>

C3_BlankLinesLeaveNoTrace ==
    /\ [][C3_BlankLineStep]_vars
    /\ [](pc # "threw" => Cardinality(NonRoot) = Cardinality(VisitedNonBlank))
    /\ [](pc = "done" => Shape(Current) = Shape(parseLines(NonBlankLines(lines))))

\* a finished parse of three lines, the middle one of white space only,
\* whose third line is a child of the first
C3_Witness ==
    /\ pc = "done"
    /\ Len(lines) = 3
    /\ lines[2] # <<>>
    /\ WhitespaceOnly(lines[2])
    /\ Cardinality(DOMAIN nodes) = 3
    /\ nodes[NodeId(0)].children = <<NodeId(2)>>

----------------------------------------------------------------------------
(* C4: getDepth splits a line into a prefix of tabs and of pairs of spaces *)
(* and a rest that begins neither with a tab nor with two spaces (a lone   *)
(* space stays in the rest); the depth is the number of tabs plus the      *)
(* number of space pairs of the prefix, tabs and pairs mixed freely.  The  *)
(* lines A, two spaces B, four spaces C have depths 0, 1, 2.               *)

SpaceRun(s, i) == Cardinality({j \in i..Len(s) : \A k \in i..j : s[k] = SP})

\* s is a concatenation of tabs and of pairs of spaces
TabsAndSpacePairs(s) ==
    /\ \A i \in 1..Len(s) : s[i] \in {SP, TAB}
    /\ \A i \in 1..Len(s) :
          (s[i] = SP /\ (i = 1 \/ s[i - 1] # SP)) => SpaceRun(s, i) % 2 = 0

Count(s, c) == Cardinality({i \in 1..Len(s) : s[i] = c})

IsIndentSplit(raw, k) ==
    /\ TabsAndSpacePairs(SubSeq(raw, 1, k))
    /\ k < Len(raw) => raw[k + 1] # TAB
    /\ k + 1 < Len(raw) => ~(raw[k + 1] = SP /\ raw[k + 2] = SP)

IndentOf(raw) ==
    LET k == CHOOSE k \in 0..Len(raw) : IsIndentSplit(raw, k)
    IN  [depth |-> Count(SubSeq(raw, 1, k), TAB) + Count(SubSeq(raw, 1, k), SP) \div 2,
         rest  |-> SubSeq(raw, k + 1, Len(raw))]

C4_DepthCountsTabsAndSpacePairs ==
    /\ \A i \in 1..Len(lines) :
          /\ Cardinality({k \in 0..Len(lines[i]) : IsIndentSplit(lines[i], k)}) = 1
          /\ getDepth(lines[i]) = IndentOf(lines[i])
    /\ \A id \in NonRoot : nodes[id].depth = IndentOf(lines[nodes[id].line + 1]).depth
    /\ IsSome(last) =>
          /\ Get(last).depth = IndentOf(Get(last).raw).depth
          /\ Get(last).rest = IndentOf(Get(last).raw).rest
    /\ getDepth(<<"A">>).depth = 0
    /\ getDepth(<<SP, SP, "B">>).depth = 1
    /\ getDepth(<<SP, SP, SP, SP, "C">>).depth = 2

\* a parsed line that begins with a tab, a pair of spaces and a lone space:
\* two levels, and the lone space is left in the rest
C4_Witness ==
    /\ IsSome(last)
    /\ Get(last).raw = <<TAB, SP, SP, SP, "a">>
    /\ Get(last).depth = 2
    /\ Get(last).rest = <<SP, "a">>
    /\ nodes[NodeId(0)].depth = 2

----------------------------------------------------------------------------
(* C5: in the tree parseText returns, a node's effectiveColor is its own   *)
(* color when it declares one, otherwise its parent's effectiveColor, that *)
(* is the color declared by its nearest ancestor that declares one, and    *)
(* undefined when there is none; the root's is undefined.  Before          *)
(* applyColor has run no node has an effectiveColor.                       *)

RECURSIVE NearestDeclaredColor(_)
NearestDeclaredColor(id) ==
    IF IsSome(nodes[id].color) THEN nodes[id].color
    ELSE IF id = RootId THEN None
    ELSE NearestDeclaredColor(ParentOf(id))

C5_EffectiveColorIsInherited ==
    /\ pc = "lines" => \A id \in DOMAIN nodes : nodes[id].effectiveColor = None
    /\ pc = "done" =>
          /\ nodes[RootId].effectiveColor = None
          /\ \A id \in NonRoot :
                /\ nodes[id].effectiveColor =
                      IF IsSome(nodes[id].color) THEN nodes[id].color
                      ELSE nodes[ParentOf(id)].effectiveColor
                /\ nodes[id].effectiveColor = NearestDeclaredColor(id)

\* a finished parse with a node that has its color from its grandparent, and
\* a node without color beside it
C5_Witness ==
    /\ pc = "done"
    /\ \E id \in NonRoot :
          /\ ParentOf(id) # RootId
          /\ ~IsSome(nodes[id].color)
          /\ ~IsSome(nodes[ParentOf(id)].color)
          /\ IsSome(nodes[ParentOf(ParentOf(id))].color)
          /\ nodes[id].effectiveColor = nodes[ParentOf(ParentOf(id))].color
          /\ IsSome(nodes[id].effectiveColor)

----------------------------------------------------------------------------
(* Vocabulary of the color properties *)

HexDigits ==
    {"0","1","2","3","4","5","6","7","8","9","a","b","c","d","e","f",
     "A","B","C","D","E","F"}

\* "#" and exactly 3, 6 or 8 hex digits
HexShape(p) ==
    /\ Len(p) >= 1
    /\ p[1] = "#"
    /\ Len(p) - 1 \in {3, 6, 8}
    /\ \A i \in 2..Len(p) : p[i] \in HexDigits

\* the eleven names of the named-color table
NamedColors ==
    {<<"r","e","d">>, <<"b","l","u","e">>, <<"g","r","e","e","n">>,
     <<"o","r","a","n","g","e">>, <<"p","u","r","p","l","e">>, <<"t","e","a","l">>,
     <<"p","i","n","k">>, <<"g","r","a","y">>, <<"s","l","a","t","e">>,
     <<"a","m","b","e","r">>, <<"l","i","m","e">>}

\* the most recent callback captured a color payload
ColorCaptured == ~threw /\ IsSome(last) /\ IsSome(Get(last).colorRaw)

CapturedPayload == Get(Get(last).colorRaw)

----------------------------------------------------------------------------
(* C6: a color payload that is neither a 3/6/8-digit hex literal nor, in   *)
(* any letter case, one of the eleven color names gives the node no color: *)
(* its color is undefined and its effectiveColor is its parent's.          *)

C6_UnknownColorIsNoColor ==
    (ColorCaptured /\ ~HexShape(CapturedPayload)
        /\ toLowerCase(CapturedPayload) \notin NamedColors)
       => /\ nodes[NewestNode].color = None
          /\ pc = "done" =>
                nodes[NewestNode].effectiveColor = nodes[ParentOf(NewestNode)].effectiveColor

----------------------------------------------------------------------------
(* C7: a payload "#" plus exactly 3, 6 or 8 hex digits is the node's color *)
(* as written, letter case kept; any other payload that begins with "#" is *)
(* rejected; a payload that is a color name in any letter case gives the   *)
(* literal of that name, so RED, Red and red give the literal of red.      *)

C7_HexVerbatimElsePresetByLowercase ==
    ColorCaptured =>
       /\ HexShape(CapturedPayload) => nodes[NewestNode].color = Some(CapturedPayload)
       /\ (CapturedPayload # <<>> /\ CapturedPayload[1] = "#" /\ ~HexShape(CapturedPayload))
             => nodes[NewestNode].color = None
       /\ toLowerCase(CapturedPayload) \in NamedColors
             => nodes[NewestNode].color = Some(COLOR_PRESETS[toLowerCase(CapturedPayload)])
       /\ CapturedPayload \in {<<"R","E","D">>, <<"R","e","d">>, <<"r","e","d">>}
             => nodes[NewestNode].color = Some(<<"#","e","f","4","4","4","4">>)

\* a six-digit literal in capitals, kept as written
C7_Witness ==
    /\ ColorCaptured
    /\ CapturedPayload = <<"#","A","B","C","D","E","F">>
    /\ nodes[NewestNode].color = Some(<<"#","A","B","C","D","E","F">>)

----------------------------------------------------------------------------
(* C8: the label map and the declarations.  As claimed, every node that    *)
(* took a label from its line has its label as a key of the map.           *)

Declarers(name) == {id \in NonRoot : nodes[id].label = Some(name)}

LastDeclarer(name) ==
    CHOOSE id \in Declarers(name) :
        \A o \in Declarers(name) : nodes[o].line <= nodes[id].line

C8_EveryLabelDirectiveIsMapped ==
    pc # "threw" =>
       \A id \in NonRoot :
          IsSome(nodes[id].label) =>
             /\ Get(nodes[id].label) \in DOMAIN labelToId
             /\ labelToId[Get(nodes[id].label)] = LastDeclarer(Get(nodes[id].label))

(* C8, amended: every node that took a label that is not empty (after      *)
(* trimming) has it as a key of the map, and the key's value is the id of  *)
(* the last line that declares the name; the map has no other keys; every  *)
(* value is the id of an existing node; a node keeps its label field when  *)
(* a later line declares the same name.                                    *)

C8_MapInvariant ==
    pc # "threw" =>
       /\ \A id \in NonRoot :
             (IsSome(nodes[id].label) /\ Get(nodes[id].label) # <<>>) =>
                /\ Get(nodes[id].label) \in DOMAIN labelToId
                /\ labelToId[Get(nodes[id].label)] = LastDeclarer(Get(nodes[id].label))
       /\ \A name \in DOMAIN labelToId :
             /\ name # <<>>
             /\ Declarers(name) # {}
             /\ labelToId[name] \in NonRoot

C8_LabelFieldKept ==
    \A id \in DOMAIN nodes : id \in DOMAIN nodes' /\ nodes'[id].label = nodes[id].label

C8_LabelMapHoldsLastDeclaration == [][C8_LabelFieldKept]_vars /\ []C8_MapInvariant

\* two lines declare one name: the map holds the second, the first node
\* still has its label
C8_Witness ==
    \E a, b \in NonRoot :
       /\ nodes[a].line < nodes[b].line
       /\ IsSome(nodes[a].label)
       /\ Get(nodes[a].label) # <<>>
       /\ nodes[b].label = nodes[a].label
       /\ labelToId[Get(nodes[a].label)] = b

----------------------------------------------------------------------------
(* Vocabulary of the reference properties: the reference directives of a   *)
(* text, read off the text without the parser                              *)

REF_OPEN == <<BS, "r", "e", "f", "{">>

\* the position of the "{" of a reference directive that begins with the
\* backslash at i, 0 when none begins there
RefBrace(text, i) ==
    IF StartsAt(text, REF_OPEN, i) THEN i + 4
    ELSE IF i <= Len(text) /\ text[i] = BS /\ StartsAt(text, REF_OPEN, i + 1) THEN i + 5
    ELSE 0

\* the position of the first "}" after the position b
BraceAfter(text, b) ==
    IF \E q \in (b + 1)..Len(text) : text[q] = "}"
    THEN CHOOSE q \in (b + 1)..Len(text) :
            text[q] = "}" /\ \A r \in (b + 1)..(q - 1) : text[r] # "}"
    ELSE 0

\* a complete directive begins at i: the keyword, "{", a payload of one
\* character or more, "}"
CompleteRefAt(text, i) ==
    /\ RefBrace(text, i) # 0
    /\ BraceAfter(text, RefBrace(text, i)) > RefBrace(text, i) + 1

RefEnd(text, i) == BraceAfter(text, RefBrace(text, i))

RefPayload(text, i) == SubSeq(text, RefBrace(text, i) + 1, RefEnd(text, i) - 1)

\* the directives from left to right: the complete ones that do not begin
\* inside an earlier one
RefStarts(text) ==
    LET cands == {i \in 1..Len(text) : CompleteRefAt(text, i)}
    IN  CHOOSE S \in SUBSET cands :
           \A i \in cands :
              i \in S <=> ~\E j \in S : j < i /\ i <= RefEnd(text, j)

Ascending(S, n) == SelectSeq([i \in 1..n |-> i], LAMBDA i : i \in S)

RefPayloads(text) ==
    [k \in 1..Cardinality(RefStarts(text)) |->
        RefPayload(text, Ascending(RefStarts(text), Len(text))[k])]

\* the most recent callback ran the reference pattern on Get(last).text5
RefsExtracted == ~threw /\ IsSome(last)

LabelThenRef ==
    << <<"a", SP, BS, "l", "a", "b", "e", "l", "{", "x", "}">>,
       <<SP, SP, "c", SP, BS, "r", "e", "f", "{", "x", "}">> >>

RoundTrip ==
    (lines = LabelThenRef /\ idx = 2) =>
       /\ labelToId = (<<"x">> :> NodeId(0))
       /\ nodes[NodeId(1)].refs = << <<"x">> >>
       /\ nodes[NodeId(0)].refs = <<>>

----------------------------------------------------------------------------
(* C9: as claimed, the references of a node are the payloads of the        *)
(* reference directives of its text, one per occurrence, from left to      *)
(* right.                                                                  *)

C9_RefsArePayloads ==
    /\ RefsExtracted => nodes[NewestNode].refs = RefPayloads(Get(last).text5)
    /\ RoundTrip

(* C9, amended: the references of a node are the payloads, trimmed of      *)
(* surrounding white space, of the reference directives of its text, one   *)
(* per occurrence (duplicates kept), from left to right; and a label x on  *)
(* one line with a reference to x on the next gives the map entry          *)
(* x -> first node and the references <<x>> on the second node.            *)

C9_RefsAreTrimmedPayloads ==
    /\ RefsExtracted =>
          /\ Get(last).refs = nodes[NewestNode].refs
          /\ nodes[NewestNode].refs =
                [k \in 1..Len(RefPayloads(Get(last).text5)) |->
                    trim(RefPayloads(Get(last).text5)[k])]
    /\ RoundTrip

\* three references on one line, one name twice, one payload with a space
C9_Witness ==
    /\ RefsExtracted
    /\ nodes[NewestNode].refs = << <<"x">>, <<"y">>, <<"x">> >>

----------------------------------------------------------------------------
(* C10: as claimed, no node's text contains the five characters \ref{ .    *)

C10_NoRefInDisplayText ==
    \A id \in NonRoot : ~includes(nodes[id].text, REF_OPEN)

(* C10, amended: the text of a node does not contain \ref{ provided that   *)
(* every \ref{ of the text the reference pattern was run on is followed    *)
(* by a payload of one character or more and a closing brace, and that     *)
(* taking the reference directives out does not bring the characters       *)
(* around them together into a new \ref{ .                                 *)

EveryRefComplete(text) ==
    \A i \in 1..Len(text) :
       StartsAt(text, REF_OPEN, i) =>
          BraceAfter(text, i + 4) > i + 5

\* the positions of the text outside its reference directives
KeptPositions(text) ==
    LET S == RefStarts(text)
    IN  {i \in 1..Len(text) : ~\E j \in S : j <= i /\ i <= RefEnd(text, j)}

\* five kept characters that spell \ref{ and were not adjacent in the text
JoinsToRef(text) ==
    LET K == Ascending(KeptPositions(text), Len(text))
    IN  \E q \in 1..(Len(K) - 4) :
           /\ [j \in 1..5 |-> text[K[q + j - 1]]] = REF_OPEN
           /\ K[q + 4] - K[q] # 4

C10_NoRefLeftWhenWellFormed ==
    (RefsExtracted /\ EveryRefComplete(Get(last).text5) /\ ~JoinsToRef(Get(last).text5))
       => ~includes(nodes[NewestNode].text, REF_OPEN)

\* a line with two reference directives, one with a doubled backslash, and
\* text between them: both are gone from the node's text
C10_Witness ==
    /\ RefsExtracted
    /\ EveryRefComplete(Get(last).text5)
    /\ ~JoinsToRef(Get(last).text5)
    /\ Get(last).text5 =
          <<BS, "r", "e", "f", "{", "x", "}", "a", BS, BS, "r", "e", "f", "{", "x", "}">>
    /\ nodes[NewestNode].text = <<"a">>

----------------------------------------------------------------------------
(* C11: the cross links are exactly the pairs (node, entry of its          *)
(* references) whose name is a key of the label map with a value other     *)
(* than the node itself: for every two nodes f and t there are as many     *)
(* links f -> t as entries of f's references that resolve to t (none when  *)
(* t = f); every link joins two different existing nodes; references to    *)
(* unknown labels and to the node itself give no link and no error.        *)

Links == Get(crossLinks)

LinksFromTo(f, t) == {i \in 1..Len(Links) : Links[i].from = f /\ Links[i].to = t}

RefsResolvingTo(f, t) ==
    {k \in 1..Len(nodes[f].refs) :
        /\ nodes[f].refs[k] \in DOMAIN labelToId
        /\ labelToId[nodes[f].refs[k]] = t
        /\ t # f}

C11_LinksAreResolvedForeignRefs ==
    /\ pc = "done" => ~threw
    /\ IsSome(crossLinks) =>
          /\ \A f, t \in DOMAIN nodes :
                Cardinality(LinksFromTo(f, t)) = Cardinality(RefsResolvingTo(f, t))
          /\ \A i \in 1..Len(Links) :
                /\ Links[i].from \in DOMAIN nodes
                /\ Links[i].to \in DOMAIN nodes
                /\ Links[i].from # Links[i].to

\* links computed for an outline in which one node refers to itself and to
\* another node, and another refers twice to one label and to an unknown one
C11_Witness ==
    /\ IsSome(crossLinks)
    /\ \E f \in NonRoot :
          /\ \E k \in 1..Len(nodes[f].refs) :
                nodes[f].refs[k] \in DOMAIN labelToId /\ labelToId[nodes[f].refs[k]] = f
          /\ \E t \in NonRoot : Cardinality(LinksFromTo(f, t)) = 1
    /\ \E f \in NonRoot :
          /\ \E k \in 1..Len(nodes[f].refs) : nodes[f].refs[k] \notin DOMAIN labelToId
          /\ \E t \in NonRoot : Cardinality(LinksFromTo(f, t)) = 2

----------------------------------------------------------------------------
(* Vocabulary of the directive properties *)

Keywords == {KW_COLOR, KW_LABEL, KW_POS, KW_JP, KW_TAGS, KW_REF}

\* the characters from i on spell the keyword kw in some letter case, with a
\* backslash before them and "{" after them
SpelledAt(raw, i, kw) ==
    /\ i >= 2
    /\ i + Len(kw) <= Len(raw)
    /\ raw[i - 1] = BS
    /\ toLowerCase(SubSeq(raw, i, i + Len(kw) - 1)) = kw
    /\ raw[i + Len(kw)] = "{"

\* the position p is a letter of a directive keyword
InKeyword(raw, p) ==
    \E kw \in Keywords : \E i \in 1..p : SpelledAt(raw, i, kw) /\ p < i + Len(kw)

\* the line with every directive keyword in lower case
LowerKeywords(raw) ==
    [p \in 1..Len(raw) |-> IF InKeyword(raw, p) THEN LowerChar(raw[p]) ELSE raw[p]]

\* the most recent callback built the node NewestNode
LineParsed == ~threw /\ IsSome(last)

----------------------------------------------------------------------------
(* C12: the keyword of a directive matches in any letter case, for each of *)
(* color, label, pos, jp, tags and ref: the node of a line, its text and   *)
(* its label map entry are those of the same line with the directive       *)
(* keywords written in lower case (a directive that stays in the text, as  *)
(* the second of two of one type does, is compared without regard to the   *)
(* letter case of its keyword).                                            *)

C12_KeywordCaseIsIgnored ==
    LineParsed =>
       LET low == ParsedLocals(LowerKeywords(Get(last).raw))
           n   == nodes[NewestNode]
       IN  /\ LowerKeywords(n.text) = MakeNode(low, n.line).text
           /\ n.color = resolveColor(low.colorRaw)
           /\ n.label = low.label
           /\ n.pos = low.pos
           /\ n.jp = low.jp
           /\ n.tags = low.tags
           /\ n.refs = low.refs
           /\ ~Falsy(low.label) =>
                 /\ Get(low.label) \in DOMAIN labelToId
                 /\ labelToId[Get(low.label)] = NewestNode

----------------------------------------------------------------------------
(* Vocabulary of the tag properties: the first directive of a keyword in a *)
(* text, read off the text, and the tokens of a payload                    *)

\* the positions where a directive of kw with a payload begins (its keyword
\* in any letter case)
DirectiveStarts(txt, kw) ==
    {i \in 2..Len(txt) :
        SpelledAt(txt, i, kw) /\ BraceAfter(txt, i + Len(kw)) > i + Len(kw) + 1}

\* the payload of the first directive of kw in txt, None when there is none
FirstPayload(txt, kw) ==
    IF DirectiveStarts(txt, kw) = {} THEN None
    ELSE LET i == CHOOSE i \in DirectiveStarts(txt, kw) :
                     \A j \in DirectiveStarts(txt, kw) : i <= j
         IN  Some(SubSeq(txt, i + Len(kw) + 1, BraceAfter(txt, i + Len(kw)) - 1))

IsSeparator(c) == c \in {",", SP, TAB, CR, LF}

\* the maximal runs of characters other than commas and white space
TokenStarts(p) ==
    {i \in 1..Len(p) : ~IsSeparator(p[i]) /\ (i = 1 \/ IsSeparator(p[i - 1]))}

TokenEnd(p, i) ==
    CHOOSE j \in i..Len(p) :
        /\ \A k \in i..j : ~IsSeparator(p[k])
        /\ j = Len(p) \/ IsSeparator(p[j + 1])

Tokens(p) ==
    [k \in 1..Cardinality(TokenStarts(p)) |->
        toLowerCase(SubSeq(p, Ascending(TokenStarts(p), Len(p))[k],
                           TokenEnd(p, Ascending(TokenStarts(p), Len(p))[k])))]

\* the working text of a line when the pattern of pos, jp or tags is tried
TextAtPos(raw) == ExtractLabel(ExtractColor(Locals(raw))).text

TextAtJp(raw) == ExtractPos(ExtractLabel(ExtractColor(Locals(raw)))).text

TextAtTags(raw) == ExtractJp(ExtractPos(ExtractLabel(ExtractColor(Locals(raw))))).text

PosPayload == FirstPayload(TextAtPos(Get(last).raw), KW_POS)

JpPayload == FirstPayload(TextAtJp(Get(last).raw), KW_JP)

TagsPayload == FirstPayload(TextAtTags(Get(last).raw), KW_TAGS)

DeclaredTags == IF IsSome(TagsPayload) THEN Tokens(Get(TagsPayload)) ELSE <<>>

\* pos and jp are stored from their own directives
PosAndJpStored ==
    /\ nodes[NewestNode].pos =
          IF IsSome(PosPayload) THEN Some(toLowerCase(trim(Get(PosPayload)))) ELSE None
    /\ nodes[NewestNode].jp =
          IF IsSome(JpPayload) THEN Some(trim(Get(JpPayload))) ELSE None

TagsExampleParsed ==
    (LineParsed /\ Get(last).raw = TagsExample) =>
       /\ nodes[NewestNode].pos = Some(<<"n","o","u","n">>)
       /\ nodes[NewestNode].tags =
             << <<"f","o","o","d">>, <<"b","a","s","i","c">>, <<"n","o","u","n">> >>
       /\ nodes[NewestNode].jp = Some(<<"w","o","r","d">>)

----------------------------------------------------------------------------
(* C13: as claimed, a node's tags are the tokens of its tags payload (split *)
(* on commas and white space, lower case, empty tokens dropped, in source  *)
(* order) followed by its partOfSpeech whenever a pos directive was        *)
(* captured.                                                               *)

C13_TagsThenPosWhenCaptured ==
    LineParsed =>
       /\ PosAndJpStored
       /\ nodes[NewestNode].tags =
             DeclaredTags \o (IF IsSome(nodes[NewestNode].pos)
                              THEN <<Get(nodes[NewestNode].pos)>> ELSE <<>>)

(* C13, amended: a node's tags are the tokens of its tags payload followed *)
(* by its partOfSpeech when a pos directive was captured whose payload is  *)
(* not white space only, whether pos stands before or after tags in the    *)
(* line; partOfSpeech (lower case, trimmed) and translation (trimmed) are  *)
(* stored from their own directives, with or without tags; the line        *)
(* word \pos{noun} \tags{food,basic} \jp{word} gives partOfSpeech noun,    *)
(* tags food, basic, noun and translation word.                            *)

C13_TagsThenNonEmptyPos ==
    /\ LineParsed =>
          /\ PosAndJpStored
          /\ nodes[NewestNode].tags =
                DeclaredTags \o (IF IsSome(nodes[NewestNode].pos)
                                    /\ Get(nodes[NewestNode].pos) # <<>>
                                 THEN <<Get(nodes[NewestNode].pos)>> ELSE <<>>)
    /\ TagsExampleParsed

\* a line with its tags directive before its pos directive: the tokens in
\* lower case without the empty ones, then the part of speech
C13_Witness ==
    /\ LineParsed
    /\ Get(last).raw =
          <<BS,"t","a","g","s","{"," ","B"," ",",",",",TAB,"c",",","}">>
             \o <<BS,"P","O","S","{"," ","A","d","j"," ","}">>
             \o <<BS,"j","p","{"," ","w","o","r","d","}">>
    /\ nodes[NewestNode].tags = << <<"b">>, <<"c">>, <<"a","d","j">> >>
    /\ nodes[NewestNode].pos = Some(<<"a","d","j">>)
    /\ nodes[NewestNode].jp = Some(<<"w","o","r","d">>)

----------------------------------------------------------------------------
(* C14: the text of a node is never empty.  Every visited line that is not *)
(* blank has a node, a line of indentation and directives only included;   *)
(* the text of the node is what remains of the line's text once the        *)
(* directives are taken out, with every run of two or more white space     *)
(* characters replaced by one space and then trimmed, or the placeholder   *)
(* (untitled) when nothing remains.                                        *)

\* the text without its reference directives
StripRefs(txt) ==
    LET K == Ascending(KeptPositions(txt), Len(txt))
    IN  [k \in 1..Len(K) |-> txt[K[k]]]

\* the first positions of the runs of white space, and all other characters
RunHeads(s) == {i \in 1..Len(s) : ~(IsSpace(s[i]) /\ i > 1 /\ IsSpace(s[i - 1]))}

\* every run of two or more white space characters replaced by one space
Collapsed(s) ==
    LET H == Ascending(RunHeads(s), Len(s))
    IN  [k \in 1..Len(H) |->
            IF IsSpace(s[H[k]]) /\ H[k] < Len(s) /\ IsSpace(s[H[k] + 1])
            THEN SP ELSE s[H[k]]]

Remaining(txt) == trim(Collapsed(StripRefs(txt)))

C14_DisplayTextNeverEmpty ==
    /\ \A i \in VisitedNonBlank : ~threw => NodeId(i) \in DOMAIN nodes
    /\ \A id \in NonRoot :
          /\ nodes[id].text # <<>>
          /\ ~IsSpace(nodes[id].text[1])
          /\ ~IsSpace(nodes[id].text[Len(nodes[id].text)])
          /\ \A k \in 1..(Len(nodes[id].text) - 1) :
                ~(IsSpace(nodes[id].text[k]) /\ IsSpace(nodes[id].text[k + 1]))
    /\ LineParsed =>
          LET rest == Remaining(Get(last).text5)
          IN  nodes[NewestNode].text = IF rest = <<>> THEN UNTITLED ELSE rest

\* a line of white space, a label and a reference: its node has the
\* placeholder text; it follows lines whose runs of white space were collapsed
C14_Witness ==
    /\ LineParsed
    /\ Get(last).raw = <<SP, TAB, BS,"l","a","b","e","l","{","x","}", SP,
                         BS,"r","e","f","{","x","}", TAB>>
    /\ Get(last).text5 = <<BS,"r","e","f","{","x","}">>
    /\ nodes[NewestNode].text = UNTITLED

----------------------------------------------------------------------------
(* Vocabulary of the malformed directives, read off the line *)

\* a keyword with its backslash, in any letter case, begins at i
KeywordOcc(raw, i, kw) ==
    /\ i >= 2
    /\ i + Len(kw) - 1 <= Len(raw)
    /\ raw[i - 1] = BS
    /\ toLowerCase(SubSeq(raw, i, i + Len(kw) - 1)) = kw

\* the keyword at i is followed by "{", a payload of one character or more
\* and a closing brace
WellFormedAt(raw, i, kw) ==
    /\ KeywordOcc(raw, i, kw)
    /\ i + Len(kw) <= Len(raw)
    /\ raw[i + Len(kw)] = "{"
    /\ BraceAfter(raw, i + Len(kw)) > i + Len(kw) + 1

MalformedAt(raw, i, kw) == KeywordOcc(raw, i, kw) /\ ~WellFormedAt(raw, i, kw)

\* a well-formed directive stands before the keyword at i; the payload of
\* such a directive, or of one that a removal completes, can hold the keyword
AfterWellFormed(raw, i) ==
    \E kw \in Keywords : \E j \in 2..(i - 1) : WellFormedAt(raw, j, kw)

\* the keyword at i is followed at once by the backslash of another directive
FollowedByBackslash(raw, i, kw) ==
    i + Len(kw) <= Len(raw) /\ raw[i + Len(kw)] = BS

Standalone(raw, i, kw) == ~AfterWellFormed(raw, i) /\ ~FollowedByBackslash(raw, i, kw)

Occurrences(raw, kw) == {i \in 2..Len(raw) : KeywordOcc(raw, i, kw)}

\* every directive of the line is malformed
AllMalformed(raw) ==
    /\ \E kw \in Keywords : Occurrences(raw, kw) # {}
    /\ \A kw \in Keywords : \A i \in Occurrences(raw, kw) : MalformedAt(raw, i, kw)

\* the backslash, the keyword and the opening brace when there is one
RawDirective(raw, i, kw) ==
    SubSeq(raw, i - 1,
           IF i + Len(kw) <= Len(raw) /\ raw[i + Len(kw)] = "{"
           THEN i + Len(kw) ELSE i + Len(kw) - 1)

\* the newest node has nothing from a directive of kw
FieldUnset(kw) ==
    CASE kw = KW_COLOR -> Get(last).colorRaw = None /\ nodes[NewestNode].color = None
      [] kw = KW_LABEL -> /\ nodes[NewestNode].label = None
                          /\ \A name \in DOMAIN labelToId : labelToId[name] # NewestNode
      [] kw = KW_POS   -> nodes[NewestNode].pos = None
      [] kw = KW_JP    -> nodes[NewestNode].jp = None
      [] kw = KW_TAGS  -> nodes[NewestNode].tags =
                             IF Falsy(nodes[NewestNode].pos) THEN <<>>
                             ELSE <<Get(nodes[NewestNode].pos)>>
      [] kw = KW_REF   -> nodes[NewestNode].refs = <<>>

----------------------------------------------------------------------------
(* C15: as claimed, a malformed directive (a keyword that is not followed  *)
(* by "{", a payload of one character or more and "}") stays in the text   *)
(* of the node as written, and when all directives of a keyword on a line  *)
(* are malformed the node has nothing from that keyword and the label map  *)
(* has no entry for the node; no error is raised.                          *)

----------------------------------------------------------------------------
(* C18: the ancestor stack.  After every prefix of the lines the bottom of *)
(* the stack is the root, the depths of the nodes on the stack increase    *)
(* strictly from bottom to top, each element above the root is a child of  *)
(* the element below it, and the top is the node of the most recent line   *)
(* that is not blank (the root when there is none yet).  So every child is *)
(* deeper than its parent, and the pre-order traversal of the tree visits  *)
(* the nodes in increasing line order.                                     *)

RECURSIVE Preorder(_)
RECURSIVE PreorderEach(_, _)

Preorder(id) == <<id>> \o PreorderEach(nodes[id].children, 1)

PreorderEach(kids, k) ==
    IF k > Len(kids) THEN <<>> ELSE Preorder(kids[k]) \o PreorderEach(kids, k + 1)

C18_StackIsTheAncestorChain ==
    pc # "threw" =>
       /\ Len(stack) >= 1
       /\ stack[1] = RootId
       /\ \A k \in 1..(Len(stack) - 1) :
             /\ nodes[stack[k]].depth < nodes[stack[k + 1]].depth
             /\ stack[k + 1] \in ChildSet(stack[k])
       /\ stack[Len(stack)] = IF NonRoot = {} THEN RootId ELSE NewestNode
       /\ \A id \in NonRoot : nodes[ParentOf(id)].depth < nodes[id].depth
       /\ LET order == Preorder(RootId)
           IN  /\ Len(order) = Cardinality(DOMAIN nodes)
               /\ \A j, k \in 1..Len(order) :
                     j < k => nodes[order[j]].line < nodes[order[k]].line

\* three lines parsed, the third as deep as the second or less and deeper
\* than the first: the second was popped and the third is on top of the first
C18_Witness ==
    /\ pc = "lines"
    /\ idx = 3
    /\ stack = <<RootId, NodeId(0), NodeId(2)>>
    /\ NodeId(1) \in DOMAIN nodes
    /\ nodes[NodeId(1)].depth > nodes[NodeId(2)].depth
    /\ ParentOf(NodeId(1)) = NodeId(0)

----------------------------------------------------------------------------
(* Snapshot history *)

\* a step of saveSnapshot: only it reads the clock
SaveStep == now' # now

----------------------------------------------------------------------------
(* Splitter *)

\* the number the saved settings hold for leftPct, if they are read
StoredPct ==
    IF /\ IsSome(localStorage.meta)
       /\ Get(localStorage.meta).parses
       /\ IsSome(Get(localStorage.meta).value.leftPct)
    THEN Get(localStorage.meta).value.leftPct
    ELSE None

Within(n) == IF n < MIN_PCT THEN MIN_PCT ELSE IF n > MAX_PCT THEN MAX_PCT ELSE n

\* C17: leftPct stays within 15..85 in every reachable state: it starts at
\* 50, a value restored from the saved settings is clamped into 15..85, a
\* sequence of splitter mouse-down, mouse-move and mouse-up events sets it
\* only to a value clamped into 15..85, and mouse moves after a mouse-up
\* (no drag being under way) do not change it.
C17_LeftPctWithinLimits ==
    /\ [](leftPct \in MIN_PCT..MAX_PCT)
    /\ [](~mounted => leftPct = 50)
    /\ [][~mounted /\ mounted' =>
            \/ leftPct' = leftPct
            \/ IsSome(StoredPct) /\ leftPct' = Within(Get(StoredPct))]_vars
    /\ [][mounted /\ leftPct' # leftPct =>
            /\ listeners > 0
            /\ IsSome(splitDragRef) /\ Get(splitDragRef).dragging
            /\ \E x \in ClientXs, w \in Widths :
                  leftPct' = Within(Get(splitDragRef).startPct
                                      + ((x - Get(splitDragRef).startX) * 100) \div w)]_vars

\* a drag from 50 past the right limit has ended at 85
C17_Witness ==
    /\ mounted
    /\ listeners = 0
    /\ IsSome(splitDragRef)
    /\ ~Get(splitDragRef).dragging
    /\ Get(splitDragRef).startPct = 50
    /\ leftPct = MAX_PCT

====
